---- MODULE Spec2Model ----
(***************************************************************************)
(* A model of aigrok's command-line pipeline (src/aigrok/cli.py):          *)
(* argument resolution, glob expansion, per-file processing with error     *)
(* isolation, and the text / json / markdown result formatter.             *)
(*                                                                         *)
(* Python values are encoded as follows.                                   *)
(*   Optional[T]      <<>> is None, <<v>> is the value v                   *)
(*   str (formatter)  the sequence of its lines: "a\nb" is <<"a", "b">>,   *)
(*                    the empty string is <<"">>                           *)
(*   dict             the sequence of its <<key, value>> pairs, in         *)
(*                    insertion (iteration) order                          *)
(*   JSON document    a tagged tree: <<"lit", "null">>, <<"lit", "true">>, *)
(*                    <<"num", "3">>, <<"str", s>>, <<"obj", pairs>>,      *)
(*                    <<"arr", items>>                                     *)
(***************************************************************************)
EXTENDS Naturals, Sequences, FiniteSets, TLC

VARIABLES
    mode,          \* which entry point runs: "main", "batch" or "format"
    pc,            \* position inside the running entry point
    args,          \* argparse namespace of main
    fs,            \* the filesystem as glob.glob sees it: pattern -> matches
    config,        \* config_manager.config (None or Some(settings))
    disk,          \* the persisted configuration (what save_config wrote)
    prompt,        \* main's local `prompt` / process_file's argument
    patterns,      \* main's local `patterns`
    pidx,          \* number of patterns already expanded by the for loop
    files,         \* main's local `files` / process_file's argument
    single,        \* process_file was given one path (str/Path), not a list
    results,       \* the list the comprehension of process_file has built
    ret,           \* what process_file returned (None before it returns)
    calls,         \* process_single_file invocations: <<path, prompt, outcome>>
    fin,           \* format_output's arguments
    out,           \* what format_output returned (None before the call)
    out2,          \* what a second, identical format_output call returned
    msgs,          \* user-facing messages printed by main
    exit_status,   \* None while running or after a plain return, Some(1) after sys.exit(1)
    trace          \* side effects of main in the order they happen

vars == <<mode, pc, args, fs, config, disk, prompt, patterns, pidx, files,
          single, results, ret, calls, fin, out, out2, msgs, exit_status, trace>>

-----------------------------------------------------------------------------
(* Python values *)

None == <<>>
Some(v) == <<v>>

\* bool(x) for an Optional[str]
StrTruthy(o) == o # None /\ o[1] # ""

\* bool(x) for an Optional[dict]
DictTruthy(o) == o # None /\ o[1] # <<>>

\* str(x) as used by an f-string placeholder, for an Optional[int]
StrOfOptInt(o) == IF o = None THEN "None" ELSE ToString(o[1])

HasKey(d, k) == \E i \in 1..Len(d) : d[i][1] = k

\* dict.get(k, default)
DictGet(d, k, default) ==
    IF HasKey(d, k) THEN d[CHOOSE i \in 1..Len(d) : d[i][1] = k][2] ELSE default

RECURSIVE Flatten(_)
Flatten(ss) == IF ss = <<>> THEN <<>> ELSE Head(ss) \o Flatten(Tail(ss))

\* "\n".join(parts), every part a string given by its lines
JoinLines(parts) == IF parts = <<>> THEN <<"">> ELSE Flatten(parts)

-----------------------------------------------------------------------------
(* ProcessingResult, and what format_output can return *)

ProcessingResult(success, text, metadata, page_count, llm_response, error, filename) ==
    [success |-> success, text |-> text, metadata |-> metadata,
     page_count |-> page_count, llm_response |-> llm_response,
     error |-> error, filename |-> filename]

\* a returned str
Returned(lines) == [raised |-> FALSE, lines |-> lines, doc |-> <<>>]
\* a returned str that is a JSON document
ReturnedJson(doc) == [raised |-> FALSE, lines |-> <<>>, doc |-> doc]
\* an AttributeError leaving format_output
Raised == [raised |-> TRUE, lines |-> <<>>, doc |-> <<>>]

-----------------------------------------------------------------------------
(* format_output *)

\* getattr(r, 'filename', None) or r.metadata.get('file_name', 'unknown')
\* The right operand is evaluated only when the filename is falsy; with
\* metadata None the attribute lookup None.get raises AttributeError.
FilenameExpr(r) ==
    IF StrTruthy(r.filename) THEN [raised |-> FALSE, value |-> r.filename[1]]
    ELSE IF r.metadata = None THEN [raised |-> TRUE, value |-> ""]
    ELSE [raised |-> FALSE, value |-> DictGet(r.metadata[1], "file_name", "unknown")]

\* r.llm_response or r.text or ""
ResponseExpr(r) ==
    IF StrTruthy(r.llm_response) THEN r.llm_response[1]
    ELSE IF StrTruthy(r.text) THEN r.text[1]
    ELSE ""

\* r.text or 'N/A'   /   r.llm_response or 'N/A'
OrNA(o) == IF StrTruthy(o) THEN o[1] ELSE "N/A"

\* f"Page Count: {r.page_count}"
PageCountLine(r) == "Page Count: " \o StrOfOptInt(r.page_count)

\* the four leading lines of a markdown document
MarkdownHead(r) ==
    << <<"# " \o FilenameExpr(r).value>>,
       <<"Text: " \o OrNA(r.text)>>,
       <<PageCountLine(r)>>,
       <<"LLM Response: " \o OrNA(r.llm_response)>> >>

\* ["## Metadata", *[f"{k}: {v}" for k, v in r.metadata.items()]] when r.metadata
MarkdownMetadata(r) ==
    IF DictTruthy(r.metadata)
    THEN << <<"## Metadata">> >> \o
         [i \in 1..Len(r.metadata[1]) |->
             <<r.metadata[1][i][1] \o ": " \o r.metadata[1][i][2]>>]
    ELSE <<>>

\* [f"## Error\n{r.error}"] when r.error
MarkdownError(r) ==
    IF StrTruthy(r.error) THEN << <<"## Error", r.error[1]>> >> ELSE <<>>

\* `lines` of one result: a list of strings
MarkdownLines(r) == MarkdownHead(r) \o MarkdownMetadata(r) \o MarkdownError(r)

\* all_lines.append("\n---\n")  # Separator between documents
MarkdownSeparator == << <<"", "---", "">> >>

\* all_lines after the loop over the result list
RECURSIVE MarkdownAllLines(_)
MarkdownAllLines(rs) ==
    IF rs = <<>> THEN <<>>
    ELSE MarkdownLines(Head(rs)) \o MarkdownSeparator \o MarkdownAllLines(Tail(rs))

\* formatted_results after the loop over the result list
RECURSIVE TextFormattedResults(_, _)
TextFormattedResults(rs, show_filenames) ==
    IF rs = <<>> THEN <<>>
    ELSE LET r == Head(rs)
             response == ResponseExpr(r)
             entry == IF response = "" THEN <<>>
                      ELSE IF show_filenames
                           THEN << <<FilenameExpr(r).value \o ": " \o response>> >>
                           ELSE << <<response>> >>
         IN  entry \o TextFormattedResults(Tail(rs), show_filenames)

\* json.dumps of an Optional[str]
JsonOptStr(o) == IF o = None THEN <<"lit", "null">> ELSE <<"str", o[1]>>
\* json.dumps of an Optional[int]
JsonOptInt(o) == IF o = None THEN <<"lit", "null">> ELSE <<"num", ToString(o[1])>>
\* json.dumps of a bool
JsonBool(b) == IF b THEN <<"lit", "true">> ELSE <<"lit", "false">>
\* json.dumps of an Optional[dict] of strings
JsonOptDict(o) ==
    IF o = None THEN <<"lit", "null">>
    ELSE <<"obj", [i \in 1..Len(o[1]) |-> <<o[1][i][1], <<"str", o[1][i][2]>> >>]>>

\* the dict literal json.dumps serializes for one result
JsonObject(r) ==
    <<"obj", << <<"success", JsonBool(r.success)>>,
                <<"text", JsonOptStr(r.text)>>,
                <<"metadata", JsonOptDict(r.metadata)>>,
                <<"page_count", JsonOptInt(r.page_count)>>,
                <<"llm_response", JsonOptStr(r.llm_response)>>,
                <<"error", JsonOptStr(r.error)>>,
                <<"filename", <<"str", FilenameExpr(r).value>> >> >> >>

\* the isinstance(result, list) branch
FormatList(rs, format_type, show_filenames) ==
    IF \E i \in 1..Len(rs) : FilenameExpr(rs[i]).raised THEN Raised
    ELSE IF format_type = "text"
         THEN Returned(JoinLines(TextFormattedResults(rs, show_filenames)))
    ELSE IF format_type = "json"
         THEN ReturnedJson(<<"arr", [i \in 1..Len(rs) |-> JsonObject(rs[i])]>>)
    ELSE Returned(JoinLines(MarkdownAllLines(rs)))

\* the else branch: a single ProcessingResult
FormatSingle(r, format_type, show_filenames) ==
    IF FilenameExpr(r).raised THEN Raised
    ELSE IF format_type = "text"
         THEN IF ResponseExpr(r) # "" /\ show_filenames
              THEN Returned(<<FilenameExpr(r).value \o ": " \o ResponseExpr(r)>>)
              ELSE Returned(<<ResponseExpr(r)>>)
    ELSE IF format_type = "json" THEN ReturnedJson(JsonObject(r))
    ELSE Returned(JoinLines(MarkdownLines(r)))

\* format_output(result, format_type, show_filenames); `result` is
\* [is_list |-> TRUE, items |-> the list] or [is_list |-> FALSE, items |-> <<r>>]
format_output(result, format_type, show_filenames) ==
    IF result.is_list THEN FormatList(result.items, format_type, show_filenames)
    ELSE FormatSingle(result.items[1], format_type, show_filenames)

-----------------------------------------------------------------------------
(* Bounds of the model *)

\* most positional command-line tokens
MaxArgs == 2
\* most paths handed to process_file directly
MaxFiles == 3
\* longest result list handed to format_output directly
MaxResults == 2

SeqsUpTo(S, n) == UNION {[1..k -> S] : k \in 0..n}

-----------------------------------------------------------------------------
(* Paths and the extraction service *)

\* file paths as component sequences; <<".">> is the current directory
Paths == {<<"a.pdf">>, <<"d", "a.pdf">>, <<"b.pdf">>, <<".">>}

\* str(Path(file_path).name): the final component, "" for "."
PathName(p) == IF p = <<".">> THEN "" ELSE p[Len(p)]

\* ProcessingResult(success=False, error=..., filename=...): the fields the
\* call leaves out take the class defaults
FailedResult(error, filename) ==
    ProcessingResult(FALSE, None, None, None, None, Some(error), Some(filename))

\* What PDFProcessor() followed by processor.process_file(path, prompt) can
\* do: raise in the constructor, raise in process_file, or return a result.
ServiceReturns ==
    { ProcessingResult(TRUE, Some("T"),
                       Some(<< <<"author", "A">>, <<"file_name", "inner.pdf">> >>),
                       Some(3), Some("L"), None, None),
      ProcessingResult(TRUE, None, None, Some(0), None, None, Some("stale.pdf")) }

ServiceOutcomes ==
    { [kind |-> "raise_init", exc |-> "no provider", result |-> FailedResult("", "")],
      [kind |-> "raise_process", exc |-> "bad pdf", result |-> FailedResult("", "")] }
    \cup { [kind |-> "return", exc |-> "", result |-> r] : r \in ServiceReturns }

\* process_single_file with PDFProcessor() constructed before the try block:
\* a constructor failure leaves the function as an exception
process_single_file_InitOutsideTry(file_path, outcome) ==
    IF outcome.kind = "return"
    THEN [raised |-> FALSE,
          result |-> [outcome.result EXCEPT !.filename = Some(PathName(file_path))]]
    ELSE [raised |-> outcome.kind = "raise_init",
          result |-> FailedResult(outcome.exc, PathName(file_path))]

\* process_single_file(file_path, prompt) when the service does `outcome`:
\* both the constructor and process_file sit inside the try block, so every
\* exception becomes a failed result and none leaves the function
process_single_file(file_path, outcome) ==
    IF outcome.kind = "return"
    THEN [raised |-> FALSE,
          result |-> [outcome.result EXCEPT !.filename = Some(PathName(file_path))]]
    ELSE [raised |-> FALSE,
          result |-> FailedResult(outcome.exc, PathName(file_path))]

-----------------------------------------------------------------------------
(* process_file: one action per process_single_file call *)

\* main's except clause: print(f"Error: {e}"); sys.exit(1)
TopLevelHandler(message) ==
    /\ msgs' = Append(msgs, "Error: " \o message)
    /\ exit_status' = Some(1)
    /\ pc' = "done"

\* one iteration of [process_single_file(f, prompt) for f in files], or the
\* single call of the isinstance(files, (str, Path)) branch.  An exception
\* leaving process_single_file would end the comprehension: the caller of
\* process_file sees it, and under main the top-level handler runs.
ProcessStep ==
    /\ pc = "process"
    /\ Len(results) < Len(files)
    /\ \E o \in ServiceOutcomes :
         LET f == files[Len(results) + 1]
             r == process_single_file(f, o)
         IN  /\ calls' = Append(calls, <<f, prompt, o>>)
             /\ trace' = Append(trace, <<"process", f>>)
             /\ IF r.raised
                THEN /\ IF mode = "main" THEN TopLevelHandler(o.exc)
                        ELSE pc' = "raised" /\ UNCHANGED <<msgs, exit_status>>
                     /\ UNCHANGED results
                ELSE /\ results' = Append(results, r.result)
                     /\ UNCHANGED <<pc, msgs, exit_status>>
    /\ UNCHANGED <<mode, args, fs, config, disk, prompt, patterns, pidx,
                   files, single, ret, fin, out, out2>>

\* process_file returns: the list, or the one result of the single-path branch
ProcessReturn ==
    /\ pc = "process"
    /\ Len(results) = Len(files)
    /\ ret' = Some([is_list |-> ~single, items |-> results])
    /\ pc' = IF mode = "main" THEN "print" ELSE "done"
    /\ UNCHANGED <<mode, args, fs, config, disk, prompt, patterns, pidx, files,
                   single, results, calls, fin, out, out2, msgs, exit_status, trace>>

NoArgs ==
    [files |-> <<>>, prompt |-> None, configure |-> FALSE, easyocr |-> FALSE,
     ocr_languages |-> <<>>, ocr_fallback |-> FALSE]
NoFs == [p \in {} |-> <<>>]

InitBatch ==
    /\ mode = "batch"
    /\ pc = "process"
    /\ single \in BOOLEAN
    /\ files \in SeqsUpTo(Paths, MaxFiles)
    /\ single => Len(files) = 1
    /\ prompt \in {"Summarize this", ""}
    /\ args = NoArgs /\ fs = NoFs /\ config = None /\ disk = None
    /\ patterns = <<>> /\ pidx = 0 /\ results = <<>> /\ ret = None
    /\ calls = <<>> /\ fin = None /\ out = None /\ out2 = None
    /\ msgs = <<>> /\ exit_status = None /\ trace = <<>>

NextBatch == ProcessStep \/ ProcessReturn

SpecBatch == InitBatch /\ [][NextBatch]_vars

-----------------------------------------------------------------------------
(* main *)

\* positional tokens a user can type; each is also a glob pattern
Tokens == {"Summarize this", "*.pdf", "missing*.pdf", "."}

\* glob.glob in two directories: one holding b.pdf and a.pdf (enumerated in
\* that order), one empty; "." always matches itself
FileSystems ==
    { [p \in Tokens |-> IF p = "*.pdf" THEN << <<"b.pdf">>, <<"a.pdf">> >>
                        ELSE IF p = "." THEN << <<".">> >> ELSE <<>>],
      [p \in Tokens |-> IF p = "." THEN << <<".">> >> ELSE <<>>] }

\* values of --ocr-languages, as character sequences: "", "en", "en,fr"
OcrLanguageArgs == {<<>>, <<"e", "n">>, <<"e", "n", ",", "f", "r">>}

\* the configuration a ConfigManager can have loaded
LoadedSettings ==
    [ocr_enabled |-> FALSE, ocr_languages |-> << <<"d", "e">> >>, ocr_fallback |-> TRUE]

\* s.split(',') on a character sequence
RECURSIVE Split(_)
Split(s) ==
    IF \E i \in 1..Len(s) : s[i] = ","
    THEN LET i == CHOOSE j \in 1..Len(s) :
                    s[j] = "," /\ \A k \in 1..(j - 1) : s[k] # ","
         IN  <<SubSeq(s, 1, i - 1)>> \o Split(SubSeq(s, i + 1, Len(s)))
    ELSE <<s>>

\* if args.configure: config_manager.configure(); return
MainConfigure ==
    /\ mode = "main" /\ pc = "config"
    /\ args.configure
    /\ trace' = Append(trace, <<"configure">>)
    /\ pc' = "done"
    /\ UNCHANGED <<mode, args, fs, config, disk, prompt, patterns, pidx, files,
                   single, results, ret, calls, fin, out, out2, msgs, exit_status>>

\* if args.easyocr: if not config_manager.config: print(...); return
MainOcrNotInitialized ==
    /\ mode = "main" /\ pc = "config"
    /\ ~args.configure /\ args.easyocr /\ config = None
    /\ msgs' = Append(msgs,
         "Error: PDF processor not properly initialized. Please run with --configure first.")
    /\ pc' = "done"
    /\ UNCHANGED <<mode, args, fs, config, disk, prompt, patterns, pidx, files,
                   single, results, ret, calls, fin, out, out2, exit_status, trace>>

\* the update with ocr_fallback left as loaded
UpdatedOcrConfig_KeepFallback ==
    [ocr_enabled |-> TRUE,
     ocr_languages |-> IF args.ocr_languages # <<>>
                       THEN Split(args.ocr_languages)
                       ELSE config[1].ocr_languages,
     ocr_fallback |-> config[1].ocr_fallback]

\* config.ocr_enabled = True; if args.ocr_languages: config.ocr_languages =
\* args.ocr_languages.split(','); config.ocr_fallback = args.ocr_fallback
UpdatedOcrConfig ==
    [ocr_enabled |-> TRUE,
     ocr_languages |-> IF args.ocr_languages # <<>>
                       THEN Split(args.ocr_languages)
                       ELSE config[1].ocr_languages,
     ocr_fallback |-> args.ocr_fallback]

\* if args.easyocr: update the three OCR settings and save_config()
MainOcrSave ==
    /\ mode = "main" /\ pc = "config"
    /\ ~args.configure /\ args.easyocr /\ config # None
    /\ config' = Some(UpdatedOcrConfig)
    /\ disk' = config'
    /\ trace' = Append(trace, <<"save">>)
    /\ pc' = "resolve"
    /\ UNCHANGED <<mode, args, fs, prompt, patterns, pidx, files, single,
                   results, ret, calls, fin, out, out2, msgs, exit_status>>

\* neither --configure nor --easyocr
MainNoConfigChange ==
    /\ mode = "main" /\ pc = "config"
    /\ ~args.configure /\ ~args.easyocr
    /\ pc' = "resolve"
    /\ UNCHANGED <<mode, args, fs, config, disk, prompt, patterns, pidx, files,
                   single, results, ret, calls, fin, out, out2, msgs,
                   exit_status, trace>>

\* prompt = args.prompt if args.prompt else args.files[0]
\* args.files[0] raises IndexError on an empty list
ResolvePrompt ==
    IF StrTruthy(args.prompt) THEN [raised |-> FALSE, value |-> args.prompt[1]]
    ELSE IF args.files = <<>> THEN [raised |-> TRUE, value |-> ""]
    ELSE [raised |-> FALSE, value |-> args.files[1]]

\* patterns = args.files[1:] if not args.prompt else args.files
ResolvePatterns ==
    IF ~StrTruthy(args.prompt)
    THEN (IF args.files = <<>> THEN <<>> ELSE Tail(args.files))
    ELSE args.files

\* argument resolution and the empty-patterns check
MainResolve ==
    /\ mode = "main" /\ pc = "resolve"
    /\ IF ResolvePrompt.raised
       THEN /\ TopLevelHandler("list index out of range")
            /\ UNCHANGED <<prompt, patterns>>
       ELSE /\ prompt' = ResolvePrompt.value
            /\ patterns' = ResolvePatterns
            /\ IF ~args.configure /\ ResolvePatterns = <<>>
               THEN /\ msgs' = Append(msgs, "Error: No input files specified")
                    /\ pc' = "done"
                    /\ UNCHANGED exit_status
               ELSE /\ pc' = "expand"
                    /\ UNCHANGED <<msgs, exit_status>>
    /\ UNCHANGED <<mode, args, fs, config, disk, pidx, files, single, results,
                   ret, calls, fin, out, out2, trace>>

\* `if not matched_files` never taken: an unmatched pattern is skipped
NoMatches_Skip(matched_files) == FALSE

\* if not matched_files
NoMatches(matched_files) == matched_files = <<>>

\* one iteration of `for pattern in patterns`
MainExpand ==
    /\ mode = "main" /\ pc = "expand"
    /\ pidx < Len(patterns)
    /\ LET pattern == patterns[pidx + 1]
           matched_files == fs[pattern]
       IN  /\ trace' = Append(trace, <<"glob", pattern>>)
           /\ IF NoMatches(matched_files)
              THEN /\ msgs' = Append(msgs, "Error: File not found: " \o pattern)
                   /\ pc' = "done"
                   /\ UNCHANGED <<files, pidx>>
              ELSE /\ files' = files \o matched_files
                   /\ pidx' = pidx + 1
                   /\ pc' = IF pidx + 1 = Len(patterns) THEN "process" ELSE "expand"
                   /\ UNCHANGED msgs
    /\ UNCHANGED <<mode, args, fs, config, disk, prompt, patterns, single,
                   results, ret, calls, fin, out, out2, exit_status>>

\* show_filenames = len(files) > 1; print(format_output(results, args.format, show_filenames))
\* args.format is read here only, so its value (one of the parser's three
\* choices) is drawn here and kept in fin
MainPrint ==
    /\ mode = "main" /\ pc = "print"
    /\ \E format \in {"text", "json", "markdown"} :
         LET show_filenames == Len(files) > 1
             o == format_output(ret[1], format, show_filenames)
         IN  /\ fin' = Some([result |-> ret[1], format_type |-> format,
                             show_filenames |-> show_filenames])
             /\ IF o.raised
                THEN /\ TopLevelHandler("'NoneType' object has no attribute 'get'")
                     /\ UNCHANGED <<out, trace>>
                ELSE /\ out' = Some(o)
                     /\ trace' = Append(trace, <<"print">>)
                     /\ pc' = "done"
                     /\ UNCHANGED <<msgs, exit_status>>
    /\ UNCHANGED <<mode, args, fs, config, disk, prompt, patterns, pidx, files,
                   single, results, ret, calls, out2>>

InitMain ==
    /\ mode = "main"
    /\ pc = "config"
    /\ \E fl \in SeqsUpTo(Tokens, MaxArgs), p \in {None, Some(""), Some("Summarize this")},
          c \in BOOLEAN, e \in BOOLEAN, l \in OcrLanguageArgs, b \in BOOLEAN :
         /\ ~e => (l = <<"e", "n">> /\ ~b)
         /\ args = [files |-> fl, prompt |-> p, configure |-> c, easyocr |-> e,
                    ocr_languages |-> l, ocr_fallback |-> b]
    /\ fs \in FileSystems
    /\ config \in {None, Some(LoadedSettings)}
    /\ disk = config
    /\ prompt = "" /\ patterns = <<>> /\ pidx = 0 /\ files = <<>>
    /\ single = FALSE /\ results = <<>> /\ ret = None
    /\ calls = <<>> /\ fin = None /\ out = None /\ out2 = None
    /\ msgs = <<>> /\ exit_status = None /\ trace = <<>>

Next ==
    \/ MainConfigure
    \/ MainOcrNotInitialized
    \/ MainOcrSave
    \/ MainNoConfigChange
    \/ MainResolve
    \/ MainExpand
    \/ ProcessStep
    \/ ProcessReturn
    \/ MainPrint

Spec == InitMain /\ [][Next]_vars

-----------------------------------------------------------------------------
(* format_output called directly *)

\* every ProcessingResult over small field domains
AllResults ==
    { ProcessingResult(s, t, m, n, l, e, f) :
        s \in BOOLEAN,
        t \in {None, Some(""), Some("T")},
        m \in {None, Some(<<>>), Some(<< <<"file_name", "x.pdf">> >>),
               Some(<< <<"author", "A">>, <<"file_name", "x.pdf">> >>),
               Some(<< <<"title", "B">>, <<"author", "A">> >>)},
        n \in {None, Some(0), Some(3)},
        l \in {None, Some(""), Some("L")},
        e \in {None, Some("E")},
        f \in {None, Some(""), Some("f.pdf")} }

\* the results that result lists are built from
ListResults ==
    { ProcessingResult(e = None, t, m, IF t = None THEN None ELSE Some(3), l, e, f) :
        t \in {None, Some("T")},
        l \in {None, Some("L")},
        e \in {None, Some("E")},
        m \in {None, Some(<<>>), Some(<< <<"author", "A">>, <<"file_name", "x.pdf">> >>)},
        f \in {None, Some("f.pdf")} }

InitFormat ==
    /\ mode = "format"
    /\ pc = "format"
    /\ \E is_list \in BOOLEAN, format_type \in {"text", "json", "markdown"},
          show_filenames \in BOOLEAN :
         \E items \in IF is_list THEN SeqsUpTo(ListResults, MaxResults)
                                 ELSE {<<r>> : r \in AllResults} :
            fin = Some([result |-> [is_list |-> is_list, items |-> items],
                        format_type |-> format_type,
                        show_filenames |-> show_filenames])
    /\ args = NoArgs /\ fs = NoFs /\ config = None /\ disk = None
    /\ prompt = "" /\ patterns = <<>> /\ pidx = 0 /\ files = <<>>
    /\ single = FALSE /\ results = <<>> /\ ret = None
    /\ calls = <<>> /\ out = None /\ out2 = None
    /\ msgs = <<>> /\ exit_status = None /\ trace = <<>>

\* format_output(result, format_type, show_filenames)
FormatCall ==
    /\ mode = "format" /\ pc = "format"
    /\ out' = Some(format_output(fin[1].result, fin[1].format_type, fin[1].show_filenames))
    /\ pc' = "again"
    /\ UNCHANGED <<mode, args, fs, config, disk, prompt, patterns, pidx, files,
                   single, results, ret, calls, fin, out2, msgs, exit_status, trace>>

\* the same call once more, on the same arguments
FormatAgain ==
    /\ mode = "format" /\ pc = "again"
    /\ out2' = Some(format_output(fin[1].result, fin[1].format_type, fin[1].show_filenames))
    /\ pc' = "done"
    /\ UNCHANGED <<mode, args, fs, config, disk, prompt, patterns, pidx, files,
                   single, results, ret, calls, fin, out, msgs, exit_status, trace>>

NextFormat == FormatCall \/ FormatAgain

SpecFormat == InitFormat /\ [][NextFormat]_vars

-----------------------------------------------------------------------------
(* What the claims read off a state *)

\* the process_single_file call log holds one entry per path, in input order
CallsFollowFiles ==
    /\ Len(calls) <= Len(files)
    /\ \A i \in 1..Len(calls) : calls[i][1] = files[i] /\ calls[i][2] = prompt

\* indices of the resolved patterns that match nothing
Unmatched == {i \in 1..Len(patterns) : fs[patterns[i]] = <<>>}

FirstUnmatched == CHOOSE i \in Unmatched : \A j \in Unmatched : i <= j

\* the matches of every pattern, in pattern order
AllMatches == Flatten([i \in 1..Len(patterns) |-> fs[patterns[i]]])

EventCount(kind) == Cardinality({i \in 1..Len(trace) : trace[i][1] = kind})

\* no file-processing or glob event precedes position n of the trace
NoWorkBefore(n) ==
    \A i \in 1..(n - 1) : trace[i][1] \notin {"glob", "process", "print"}

\* main got as far as argument resolution
ReachedResolution ==
    mode = "main" /\ ~args.configure /\ ~(args.easyocr /\ config = None)

\* the filename rule of the data model: explicit field, else
\* metadata["file_name"], else "unknown"
ThreeTierFilename(r) ==
    IF r.filename # None /\ r.filename # Some("") THEN r.filename[1]
    ELSE IF r.metadata # None /\ HasKey(r.metadata[1], "file_name")
         THEN DictGet(r.metadata[1], "file_name", "")
    ELSE "unknown"

\* llm_response if non-empty, else text, else ""
PrimaryContent(r) ==
    IF r.llm_response \notin {None, Some("")} THEN r.llm_response[1]
    ELSE IF r.text \notin {None, Some("")} THEN r.text[1]
    ELSE ""

\* the text rendering of a result list as the format is documented
ExpectedTextLines(rs, show_filenames) ==
    LET kept == SelectSeq(rs, LAMBDA r : PrimaryContent(r) # "")
    IN  IF kept = <<>> THEN <<"">>
        ELSE [i \in 1..Len(kept) |->
                IF show_filenames
                THEN ThreeTierFilename(kept[i]) \o ": " \o PrimaryContent(kept[i])
                ELSE PrimaryContent(kept[i])]

\* format_output was called with this format and has returned or raised
Formatted(format_type) ==
    fin # None /\ fin[1].format_type = format_type /\ (out # None \/ exit_status # None)

Formats(format_type) == fin # None /\ fin[1].format_type = format_type /\ out # None

JsonKeys == <<"success", "text", "metadata", "page_count", "llm_response",
              "error", "filename">>

-----------------------------------------------------------------------------
(* Claims *)

C2_AllOrNothingExpansion ==
    mode = "main" =>
        /\ Unmatched # {} =>
             /\ calls = <<>> /\ results = <<>> /\ out = None
             /\ EventCount("process") = 0
             /\ pc \notin {"process", "print"}
             /\ pc = "done" =>
                  /\ msgs = <<"Error: File not found: " \o patterns[FirstUnmatched]>>
                  /\ exit_status = None
        /\ (Unmatched = {} /\ pc \in {"process", "print"}) => files = AllMatches
        /\ (Unmatched = {} /\ pc = "done" /\ patterns # <<>>) => files = AllMatches
        /\ calls # <<>> =>
             /\ pidx = Len(patterns)
             /\ EventCount("glob") = Len(patterns)
             /\ \A i, j \in 1..Len(trace) :
                  (trace[i][1] = "process" /\ trace[j][1] = "glob") => j < i

\* C2 witness: the first pattern matched two files, the second none; main has
\* returned with the error message and processed nothing
C2_Witness ==
    /\ mode = "main" /\ pc = "done"
    /\ patterns = <<"*.pdf", "missing*.pdf">>
    /\ fs["*.pdf"] # <<>>
    /\ msgs = <<"Error: File not found: missing*.pdf">>
    /\ exit_status = None
    /\ calls = <<>>

\* C3: whenever the resolved pattern list is empty, main prints a user-facing
\* error and returns gracefully: no exception during argument resolution, no
\* exit status 1.
C3_EmptyPatternsGraceful ==
    (ReachedResolution /\ pc = "done" /\ ResolvePatterns = <<>>) =>
        /\ exit_status = None
        /\ msgs = <<"Error: No input files specified">>
        /\ calls = <<>>

\* C4: after argument resolution, prompt is the flag value and patterns the
\* full positional list when --prompt was supplied (the empty string
\* included); otherwise prompt is the first positional token and patterns the
\* remaining ones.
C4_ArgumentResolution ==
    (mode = "main" /\ pc = "expand") =>
        IF args.prompt # None
        THEN prompt = args.prompt[1] /\ patterns = args.files
        ELSE prompt = Head(args.files) /\ patterns = Tail(args.files)

\* C5: a markdown document starts with the filename heading and the lines
\* "Text:", "Page Count:" and "LLM Response:", each showing N/A when its field
\* is absent or falsy; "## Metadata" with every pair appears exactly when
\* metadata is non-empty, "## Error" exactly when error is set.
C5_MarkdownDocument ==
    (mode = "format" /\ Formats("markdown") /\ ~fin[1].result.is_list /\ ~out[1].raised) =>
        LET r == fin[1].result.items[1]
            lines == out[1].lines
            meta == IF DictTruthy(r.metadata) THEN r.metadata[1] ELSE <<>>
            nmeta == IF meta = <<>> THEN 0 ELSE Len(meta) + 1
        IN  /\ Len(lines) >= 4
            /\ lines[1] = "# " \o ThreeTierFilename(r)
            /\ lines[2] = "Text: " \o (IF StrTruthy(r.text) THEN r.text[1] ELSE "N/A")
            /\ lines[3] = "Page Count: " \o
                 (IF r.page_count \in {None, Some(0)} THEN "N/A" ELSE ToString(r.page_count[1]))
            /\ lines[4] = "LLM Response: " \o
                 (IF StrTruthy(r.llm_response) THEN r.llm_response[1] ELSE "N/A")
            /\ ("## Metadata" \in {lines[i] : i \in 1..Len(lines)}) <=> (meta # <<>>)
            /\ meta # <<>> =>
                 /\ Len(lines) >= 4 + nmeta
                 /\ lines[5] = "## Metadata"
                 /\ \A i \in 1..Len(meta) : lines[5 + i] = meta[i][1] \o ": " \o meta[i][2]
            /\ ("## Error" \in {lines[i] : i \in 1..Len(lines)}) <=> (r.error # None)
            /\ r.error # None =>
                 /\ Len(lines) = 4 + nmeta + 2
                 /\ lines[4 + nmeta + 2] = r.error[1]

\* C6: in markdown, consecutive documents of a batch are separated by a "---"
\* line, and the rendering of a single result carries no separator; the
\* latter also holds for what main prints when exactly one file was resolved.
C6_MarkdownSeparator ==
    (mode = "main" /\ pc = "done" /\ Formats("markdown")) =>
        LET lines == out[1].lines
            rules == {i \in 1..Len(lines) : lines[i] = "---"}
        IN  IF Len(files) = 1 THEN rules = {}
            ELSE /\ Cardinality(rules) >= Len(files) - 1
                 /\ \A k \in 1..Len(files) :
                      Cardinality({i \in 1..Len(lines) :
                                     lines[i] = "# " \o PathName(files[k])}) >= 1

\* C7: in text format the primary content is llm_response if non-empty, else
\* text, else ""; a result list yields one line per result with non-empty
\* content, in input order, prefixed "<filename>: " exactly when
\* show_filenames; a single result with empty content yields ""; main passes
\* show_filenames = (more than one file resolved).
C7_TextFormat ==
    Formatted("text") =>
        /\ exit_status = None
        /\ out # None /\ ~out[1].raised
        /\ mode = "main" => fin[1].show_filenames = (Len(files) > 1)
        /\ fin[1].result.is_list =>
             out[1].lines = ExpectedTextLines(fin[1].result.items, fin[1].show_filenames)
        /\ (~fin[1].result.is_list /\ PrimaryContent(fin[1].result.items[1]) = "") =>
             out[1].lines = <<"">>

\* C8: in every format the rendered filename is the explicit field when set,
\* else metadata["file_name"] when present, else "unknown", and a result with
\* no filename and empty or missing metadata never makes format_output raise.
C8_FilenameTotal ==
    (mode = "format" /\ out # None) =>
        /\ ~out[1].raised
        /\ (fin[1].format_type = "markdown" /\ ~fin[1].result.is_list) =>
             out[1].lines[1] = "# " \o ThreeTierFilename(fin[1].result.items[1])
        /\ (fin[1].format_type = "json" /\ ~fin[1].result.is_list) =>
             out[1].doc[2][7] =
                <<"filename", <<"str", ThreeTierFilename(fin[1].result.items[1])>> >>

\* C9: in json format a result list yields an array with one object per
\* result in input order, a single result yields one object; every object has
\* exactly the seven keys; a second identical call returns the same output.
C9_JsonShape ==
    (mode = "format" /\ Formats("json")) =>
        LET items == fin[1].result.items
            doc == out[1].doc
            IsObjectOf(o, r) ==
                /\ o[1] = "obj"
                /\ [i \in 1..Len(o[2]) |-> o[2][i][1]] = JsonKeys
                /\ o[2][1][2] = <<"lit", IF r.success THEN "true" ELSE "false">>
                /\ o[2][6][2] = IF r.error = None THEN <<"lit", "null">>
                                ELSE <<"str", r.error[1]>>
        IN  /\ ~out[1].raised
            /\ IF fin[1].result.is_list
               THEN /\ doc[1] = "arr"
                    /\ Len(doc[2]) = Len(items)
                    /\ \A i \in 1..Len(items) : IsObjectOf(doc[2][i], items[i])
               ELSE IsObjectOf(doc, items[1])
            /\ out2 # None => out2 = out

\* C10: with --configure the configuration flow runs and nothing is expanded
\* or processed; with --easyocr and no configuration main prints a user error
\* and stops with nothing saved or processed; with --easyocr and a
\* configuration the three updated OCR settings are saved before the first
\* file is processed and never saved again.
C10_ConfigurationOrder ==
    mode = "main" =>
        /\ args.configure =>
             /\ \A i \in 1..Len(trace) : trace[i] = <<"configure">>
             /\ pc = "done" => trace = << <<"configure">> >>
             /\ calls = <<>> /\ files = <<>> /\ out = None
        /\ (~args.configure /\ args.easyocr /\ config = None) =>
             /\ trace = <<>> /\ calls = <<>> /\ disk = None
             /\ pc \in {"config", "done"}
             /\ pc = "done" =>
                  /\ exit_status = None
                  /\ msgs = <<"Error: PDF processor not properly initialized. Please run with --configure first.">>
        /\ (~args.configure /\ args.easyocr /\ config # None /\ pc # "config") =>
             /\ trace # <<>> /\ trace[1] = <<"save">>
             /\ EventCount("save") = 1
             /\ disk[1].ocr_enabled = TRUE
             /\ disk[1].ocr_fallback = args.ocr_fallback
             /\ disk[1].ocr_languages =
                  (IF args.ocr_languages = <<"e", "n">> THEN << <<"e", "n">> >>
                   ELSE IF args.ocr_languages = <<"e", "n", ",", "f", "r">>
                        THEN << <<"e", "n">>, <<"f", "r">> >>
                   ELSE LoadedSettings.ocr_languages)
        /\ (~args.configure /\ ~args.easyocr) => EventCount("save") = 0
        /\ \A n \in 1..Len(trace) : trace[n][1] \in {"save", "configure"} => NoWorkBefore(n)

\* C10 witness: --easyocr --ocr-languages en,fr with a loaded configuration;
\* the save is the first event and two files were processed after it
C10_Witness ==
    /\ mode = "main" /\ pc = "done"
    /\ args.easyocr /\ args.ocr_languages = <<"e", "n", ",", "f", "r">>
    /\ ~args.ocr_fallback
    /\ Len(calls) = 2
    /\ trace[1] = <<"save">>
    /\ disk = Some([ocr_enabled |-> TRUE,
                    ocr_languages |-> << <<"e", "n">>, <<"f", "r">> >>,
                    ocr_fallback |-> FALSE])

-----------------------------------------------------------------------------
(* Supporting lemmas: the formatter outside the AttributeError case *)

\* the filename expression raises for no result handed to format_output
FilenameResolvable ==
    fin # None /\ \A i \in 1..Len(fin[1].result.items) :
                     ~FilenameExpr(fin[1].result.items[i]).raised

\* the text format is as documented wherever the filename expression does not
\* raise (SpecFormat and Spec)
TextFormatWhenResolvable == FilenameResolvable => C7_TextFormat

\* the three filename tiers hold wherever the filename expression does not
\* raise (SpecFormat)
FilenameTiersWhenResolvable == FilenameResolvable => C8_FilenameTotal

\* the json shape and the repeated call are as documented wherever the
\* filename expression does not raise (SpecFormat)
JsonShapeWhenResolvable == FilenameResolvable => C9_JsonShape

====
